---- MODULE Spec2Model ----
(***************************************************************************)
(* A model of the Yahtzee rules engine (yahtzee.py) and of its game loop   *)
(* (main.py).                                                              *)
(*                                                                         *)
(* Encoding.  A Python list is a sequence.  A line of text is a sequence   *)
(* of one-character strings ("" is << >>).  An optional value is a         *)
(* sequence of length at most one: None is << >> and the value x is <<x>>. *)
(* A dict is a function whose DOMAIN is its key set.                       *)
(***************************************************************************)
EXTENDS Integers, Sequences, FiniteSets, Bags, TLC

VARIABLES
    pc,          \* where the program is: "main", "keep", "stop", "choose",
                 \* "over", "crashed" (the game); "hand", "scored" (SpecEval)
    rnd,         \* main: the round the for loop runs next (1..14)
    card,        \* the scorecard: category -> optional score
    dice,        \* play_round: the current hand
    kept,        \* play_round: the list select_keep returned
    roll_no,     \* play_round: the for loop's variable (0 outside the loop)
    scores_now,  \* play_round: evaluate(dice), as an optional dict
    avail,       \* choose: the menu on display
    choice,      \* play_round: the category choose returned (optional)
    final_total, \* main: the final tally (optional)
    ans,         \* play_round: the stop answer (empty while none is accepted)
    source,      \* the faces the dice source yields in this run
    n_rolls,     \* history: the rolls made in this round so far
    n_keeps,     \* history: the keep requests accepted in this round so far
    roll2,       \* history: the hand of roll #2 of this round (optional)
    typed,       \* select_keep: the line read at the prompt (SpecParse)
    parsed,      \* select_keep: what _parse_keep_string made of the line
                 \* (None while no line is parsed, else <<result>>)
    shown        \* display_scorecard: the sums it prints, as an optional
                 \* record [up, b, low, total]

vars == <<pc, rnd, card, dice, kept, roll_no, scores_now, avail, choice,
          final_total, ans, source, n_rolls, n_keeps, roll2, typed, parsed,
          shown>>

---------------------------------------------------------------------------
(* Bounds of the exploration *)

\* the longest line of text the player types at a prompt
MaxRawLen == 2

\* Spec explores the first MaxRounds rounds of a game
MaxRounds == 2

\* the longest kept list SpecHands hands to reroll (a hand has 5 dice)
MaxKept == 6

\* the longest line SpecParse hands to _parse_keep_string, the lines the
\* specification names apart
MaxLineLen == 3

\* the faces the dice source yields under Spec
SpecFaces == {3, 6}

\* the face the dice source yields under SpecGame (all 13 rounds)
GameFaces == {6}

---------------------------------------------------------------------------
(* Values *)

None == << >>
Some(x) == <<x>>
Get(o) == o[1]

Range(s) == {s[i] : i \in DOMAIN s}

\* a sum over the distinct values only: sum(set(seq))
RECURSIVE sum_distinct(_)
sum_distinct(s) ==
    IF s = << >> THEN 0
    ELSE Head(s) + sum_distinct(SelectSeq(Tail(s), LAMBDA x : x # Head(s)))

\* sum(seq)
RECURSIVE sum(_)
sum(s) == IF s = << >> THEN 0 ELSE Head(s) + sum(Tail(s))

\* sorted(seq) / list.sort(), ascending
sorted(s) == SortSeq(s, LAMBDA a, b : a < b)

\* max(a, b)
max(a, b) == IF a >= b THEN a ELSE b

\* a dict with d[k] = v assigned
DictSet(d, k, v) == [x \in (DOMAIN d) \cup {k} |-> IF x = k THEN v ELSE d[x]]

\* the empty dict {}
EmptyDict == [x \in {} |-> 0]

\* collections.Counter(seq): value -> multiplicity, over the values present
Counter(s) == [v \in Range(s) |-> Cardinality({i \in DOMAIN s : s[i] = v})]

\* a lookup that tells presence, not multiplicity: 1 for any key present
CounterGet_presence(c, v) == IF v \in DOMAIN c THEN 1 ELSE 0

\* Counter.__getitem__: a missing key counts 0
CounterGet(c, v) == IF v \in DOMAIN c THEN c[v] ELSE 0

\* Counter.values()
CounterValues(c) == {c[v] : v \in DOMAIN c}

\* str(n) and int(ch) for one decimal digit
DigitChars == <<"0", "1", "2", "3", "4", "5", "6", "7", "8", "9">>
str(n) == DigitChars[n + 1]
DigitValue(ch) == (CHOOSE i \in DOMAIN DigitChars : DigitChars[i] = ch) - 1

---------------------------------------------------------------------------
(* Categories *)

UPPER_CATEGORIES == <<"1", "2", "3", "4", "5", "6">>
LOWER_CATEGORIES == <<"three_of_a_kind", "four_of_a_kind", "full_house",
                      "four_straight", "five_straight", "yahtzee", "chance">>
ALL_CATEGORIES == UPPER_CATEGORIES \o LOWER_CATEGORIES

\* random.randint(1, 6)
Faces == 1..6

\* roll_dice(n): every outcome of n dice whose faces the source yields
roll_dice(n, src) == [1..n -> src]

\* create_empty_scorecard()
create_empty_scorecard == [k \in Range(ALL_CATEGORIES) |-> None]

---------------------------------------------------------------------------
(* Hand evaluation *)

\* a scan whose else branch forgets run = 1: a gap does not end the run
RECURSIVE straight_scan_no_reset(_, _)
straight_scan_no_reset(vals, i) ==
    IF i <= 1 THEN <<1, 1>>
    ELSE LET p == straight_scan_no_reset(vals, i - 1)
         IN  IF vals[i] = vals[i - 1] + 1
             THEN <<max(p[1], p[2] + 1), p[2] + 1>>
             ELSE p

\* has_straight: the longest run of consecutive values after the scan of
\* the first i entries of vals, as <<longest, run>>
RECURSIVE straight_scan(_, _)
straight_scan(vals, i) ==
    IF i <= 1 THEN <<1, 1>>
    ELSE LET p == straight_scan(vals, i - 1)
         IN  IF vals[i] = vals[i - 1] + 1
             THEN <<max(p[1], p[2] + 1), p[2] + 1>>
             ELSE <<p[1], 1>>

\* sorted(set(dice))
sorted_set(d) ==
    LET S == Range(d)
        RECURSIVE asc(_)
        asc(T) == IF T = {} THEN << >>
                  ELSE LET m == CHOOSE x \in T : \A y \in T : x <= y
                       IN  <<m>> \o asc(T \ {m})
    IN  asc(S)

has_straight(d, length) ==
    LET vals == sorted_set(d)
    IN  IF vals = << >> THEN FALSE
        ELSE straight_scan(vals, Len(vals))[1] >= length

\* sorted(counts.values()) without reverse=True: ascending
RECURSIVE counts_asc(_, _)
counts_asc(c, n) ==
    IF n = 0 THEN << >>
    ELSE counts_asc(c, n - 1)
         \o [i \in 1..Cardinality({v \in DOMAIN c : c[v] = n}) |-> n]

\* sorted(counts.values(), reverse=True): the multiplicities, descending
RECURSIVE counts_desc(_, _)
counts_desc(c, n) ==
    IF n = 0 THEN << >>
    ELSE [i \in 1..Cardinality({v \in DOMAIN c : c[v] = n}) |-> n]
         \o counts_desc(c, n - 1)

\* the loop over range(2, 7): face 1 gets no entry
RECURSIVE upper_scores_from_two(_, _, _)
upper_scores_from_two(scores, counts, face) ==
    IF face <= 1 THEN scores
    ELSE DictSet(upper_scores_from_two(scores, counts, face - 1),
                 str(face), face * CounterGet(counts, face))

\* the upper section of evaluate: the for loop over range(1, 7)
RECURSIVE upper_scores(_, _, _)
upper_scores(scores, counts, face) ==
    IF face = 0 THEN scores
    ELSE DictSet(upper_scores(scores, counts, face - 1),
                 str(face), face * CounterGet(counts, face))

\* evaluate with the yahtzee test written c >= 4 in place of c == 5
evaluate_yahtzee_from_four(d) ==
    LET counts == Counter(d)
        total  == sum(d)
        s0 == upper_scores(EmptyDict, counts, 6)
        s1 == DictSet(s0, "three_of_a_kind",
                  IF \E c \in CounterValues(counts) : c >= 3 THEN total ELSE 0)
        s2 == DictSet(s1, "four_of_a_kind",
                  IF \E c \in CounterValues(counts) : c >= 4 THEN total ELSE 0)
        cs == counts_desc(counts, Len(d))
        s3 == DictSet(s2, "full_house", IF cs = <<3, 2>> THEN 25 ELSE 0)
        s4 == DictSet(s3, "four_straight", IF has_straight(d, 4) THEN 30 ELSE 0)
        s5 == DictSet(s4, "five_straight", IF has_straight(d, 5) THEN 40 ELSE 0)
        s6 == DictSet(s5, "yahtzee",
                  IF \E c \in CounterValues(counts) : c >= 4 THEN 50 ELSE 0)
    IN  DictSet(s6, "chance", total)

evaluate(d) ==
    LET counts == Counter(d)
        total  == sum(d)
        s0 == upper_scores(EmptyDict, counts, 6)
        s1 == DictSet(s0, "three_of_a_kind",
                  IF \E c \in CounterValues(counts) : c >= 3 THEN total ELSE 0)
        s2 == DictSet(s1, "four_of_a_kind",
                  IF \E c \in CounterValues(counts) : c >= 4 THEN total ELSE 0)
        cs == counts_desc(counts, Len(d))
        s3 == DictSet(s2, "full_house", IF cs = <<3, 2>> THEN 25 ELSE 0)
        s4 == DictSet(s3, "four_straight", IF has_straight(d, 4) THEN 30 ELSE 0)
        s5 == DictSet(s4, "five_straight", IF has_straight(d, 5) THEN 40 ELSE 0)
        s6 == DictSet(s5, "yahtzee",
                  IF \E c \in CounterValues(counts) : c = 5 THEN 50 ELSE 0)
    IN  DictSet(s6, "chance", total)

---------------------------------------------------------------------------
(* Text: what the player types, and what the prompts make of it *)

\* the characters str.split() and str.strip() treat as whitespace
Whitespace == {" ", "\t"}

\* the characters str.isdigit() accepts: the decimal digits, which int()
\* reads, and digits such as SUPERSCRIPT TWO (written "^2" here), which
\* int() refuses with a ValueError
SuperscriptTwo == "^2"
IsDigitChars == Range(DigitChars) \cup {SuperscriptTwo}

\* every line of at most n characters over the alphabet A
Lines(A, n) == UNION {[1..k -> A] : k \in 0..n}

\* what the player may type at each prompt
KeepInputs == Lines({"3", "6", " ", "7"}, MaxRawLen)
StopInputs == Lines({"y", "n", "Y", "N", " ", "x"}, MaxRawLen)
ChooseInputs ==
    Lines({"0", "1", "2", "3", "9", " ", "x", SuperscriptTwo}, MaxRawLen)

\* what select_keep may read when its parser is looked at on its own:
\* every short line of faces, other digits, a letter and whitespace, and
\* the four lines "336", " 3 3 6 ", "07", "3x6"
ParseInputs ==
    Lines({"1", "3", "6", "0", "7", "x", " ", "\t"}, MaxLineLen)
    \cup {<<"3", "3", "6">>, <<" ", "3", " ", "3", " ", "6", " ">>,
          <<"0", "7">>, <<"3", "x", "6">>}

\* "".join(s.split()): s without any whitespace
join_split(s) == SelectSeq(s, LAMBDA ch : ch \notin Whitespace)

\* s.strip(): s without its leading and trailing whitespace
RECURSIVE lstrip(_)
lstrip(s) == IF s # << >> /\ Head(s) \in Whitespace THEN lstrip(Tail(s)) ELSE s
RECURSIVE rstrip(_)
rstrip(s) ==
    IF s # << >> /\ s[Len(s)] \in Whitespace
    THEN rstrip(SubSeq(s, 1, Len(s) - 1)) ELSE s
strip(s) == rstrip(lstrip(s))

\* s.lower(), on the letters the inputs hold
lower_char(ch) == CASE ch = "Y" -> "y" [] ch = "N" -> "n" [] ch = "X" -> "x"
                    [] OTHER -> ch
lower(s) == [i \in DOMAIN s |-> lower_char(s[i])]

\* s.isdigit(): not empty, and every character a digit
isdigit(s) == s # << >> /\ \A i \in DOMAIN s : s[i] \in IsDigitChars

\* int(s) of a line isdigit accepts: the number, or None for a ValueError
RECURSIVE decimal(_)
decimal(s) == IF s = << >> THEN 0
              ELSE 10 * decimal(SubSeq(s, 1, Len(s) - 1)) + DigitValue(s[Len(s)])
int(s) == IF \A i \in DOMAIN s : s[i] \in Range(DigitChars)
          THEN Some(decimal(s)) ELSE None

\* a loop that skips a character outside '123456' where the code returns
\* None
RECURSIVE parse_digits_skip(_, _, _)
parse_digits_skip(s, i, digits) ==
    IF i > Len(s) THEN Some(digits)
    ELSE IF s[i] \in {"1", "2", "3", "4", "5", "6"}
         THEN parse_digits_skip(s, i + 1, Append(digits, DigitValue(s[i])))
         ELSE parse_digits_skip(s, i + 1, digits)

\* the for loop of _parse_keep_string from character i on: the digits, or
\* None at the first character outside '123456'
RECURSIVE parse_digits(_, _, _)
parse_digits(s, i, digits) ==
    IF i > Len(s) THEN Some(digits)
    ELSE IF s[i] \in {"1", "2", "3", "4", "5", "6"}
         THEN parse_digits(s, i + 1, Append(digits, DigitValue(s[i])))
         ELSE None

_parse_keep_string(s) ==
    IF s = << >> THEN Some(<< >>)
    ELSE parse_digits(join_split(s), 1, << >>)

\* a test on membership, not on multiplicity: all(v in dice for v in kept)
keep_feasible_by_membership(d, k) == \A v \in Range(k) : v \in Range(d)

\* select_keep's test: all(want[v] <= pool[v] for v in want)
keep_feasible(d, k) ==
    LET pool == Counter(d)
        want == Counter(k)
    IN  \A v \in DOMAIN want : want[v] <= CounterGet(pool, v)

\* select_keep's loop body after the parse: the kept list it returns, or
\* None when it prompts again
keep_check(d, k) ==
    IF k = None THEN None
    ELSE IF keep_feasible(d, Get(k)) THEN k ELSE None

\* one pass of select_keep's loop on the line raw
select_keep(d, raw) == keep_check(d, _parse_keep_string(raw))

\* what the lines of KeepInputs parse to
KeepRequests == {_parse_keep_string(raw) : raw \in KeepInputs}

\* a stop prompt that forgets .lower(): 'Y' and 'N' are turned down
stop_answer_no_lower(raw) ==
    LET a == strip(raw)
        b == IF a = << >> THEN <<"n">> ELSE a
    IN  IF b \in {<<"y">>, <<"n">>} THEN Some(b) ELSE None

\* one pass of the stop prompt's loop on the line raw: the answer it
\* breaks with, or None when it prompts again
stop_answer(raw) ==
    LET a == lower(strip(raw))
        b == IF a = << >> THEN <<"n">> ELSE a
    IN  IF b \in {<<"y">>, <<"n">>} THEN Some(b) ELSE None

\* what the lines of StopInputs are taken for
StopAnswers == {stop_answer(raw) : raw \in StopInputs}

\* play_round: used = {k for k, v in card.items() if v is not None}
used_of(c) == {k \in DOMAIN c : c[k] # None}

\* a menu that forgets the filter on used: every category is offered
avail_of_unfiltered(used) == ALL_CATEGORIES

\* choose: avail = [k for k in ALL_CATEGORIES if k not in used]
avail_of(used) == SelectSeq(ALL_CATEGORIES, LAMBDA k : k \notin used)

\* choose's loop body up to choice_idx = int(raw): <<"int", choice_idx>>,
\* <<"again">> when the line is no digits and the prompt repeats,
\* <<"ValueError">> when int() raises
choose_read(raw) ==
    LET r == strip(raw)
    IN  IF ~isdigit(r) THEN <<"again">>
        ELSE LET n == int(r)
             IN  IF n = None THEN <<"ValueError">> ELSE <<"int", Get(n)>>

\* choose's loop body after it: <<"return", key>> for a number in the
\* menu's range, <<"again">> for one out of range
choose_check(av, rd) ==
    IF rd[1] = "int"
    THEN IF 1 <= rd[2] /\ rd[2] <= Len(av)
         THEN <<"return", av[rd[2]]>> ELSE <<"again">>
    ELSE rd

\* one pass of choose's loop on the line raw
choose(av, raw) == choose_check(av, choose_read(raw))

\* what the lines of ChooseInputs are read as
ChooseReads == {choose_read(raw) : raw \in ChooseInputs}

\* a reroll without the guard on len(kept): roll_dice of a negative
\* number returns no dice, and the kept list comes back whole
reroll_no_clamp(d, k, src) ==
    {sorted(k \o new_rolls) : new_rolls \in roll_dice(5 - Len(k), src)}

\* reroll(dice, kept): every hand it can return
reroll(d, k, src) ==
    LET k1 == IF Len(k) > Len(d) THEN SubSeq(k, 1, Len(d)) ELSE k
        need == 5 - Len(k1)
    IN  {sorted(k1 \o new_rolls) : new_rolls \in roll_dice(need, src)}

\* a stop branch that lacks the break after 'y': it rerolls all the same
after_stop_no_break(a, d, k, src) == reroll(d, k, src)

\* a stop branch whose third roll forgets the kept list
after_stop_fresh(a, d, k, src) ==
    IF a = <<"y">> THEN {d} ELSE reroll(d, << >>, src)

\* play_round, the branch on ans: every hand the round can end with, the
\* hand as it is after 'y', a reroll with the same kept list after 'n'
after_stop(a, d, k, src) ==
    IF a = <<"y">> THEN {d} ELSE reroll(d, k, src)

\* a lookup under the wrong key: the score of chance, whatever the choice
score_of_chance(scores, key) == scores["chance"]

\* play_round line 506, the right-hand side: scores_now[choice]
score_of(scores, key) == scores[key]

\* a commit that rebuilds the card around the new entry
commit_rebuilt(c, key, value) ==
    [create_empty_scorecard EXCEPT ![key] = Some(value)]

\* play_round line 506, the assignment: card[choice] = value
commit(c, key, value) == [c EXCEPT ![key] = Some(value)]

---------------------------------------------------------------------------
(* The scorecard's sums *)

\* sum(card[k] for k in keys if card[k] is not None)
RECURSIVE sum_set(_, _, _)
sum_set(c, keys, i) ==
    IF i = 0 THEN 0
    ELSE sum_set(c, keys, i - 1)
         + (IF c[keys[i]] # None THEN Get(c[keys[i]]) ELSE 0)

_upper_subtotal(c) == sum_set(c, UPPER_CATEGORIES, Len(UPPER_CATEGORIES))
\* a lower subtotal that stops one category short (chance is left out)
_lower_subtotal_short(c) ==
    sum_set(c, LOWER_CATEGORIES, Len(LOWER_CATEGORIES) - 1)

_lower_subtotal(c) == sum_set(c, LOWER_CATEGORIES, Len(LOWER_CATEGORIES))
\* a bonus whose threshold is exclusive: > 63
_bonus_strict(upper_subtotal) == IF upper_subtotal > 63 THEN 35 ELSE 0

_bonus(upper_subtotal) == IF upper_subtotal >= 63 THEN 35 ELSE 0

\* main: for rnd in range(1, 14)
Rounds == 13

---------------------------------------------------------------------------
(* The game: main and play_round *)

Init ==
    /\ pc = "main"
    /\ rnd = 1
    /\ card = create_empty_scorecard
    /\ dice = << >>
    /\ kept = << >>
    /\ roll_no = 0
    /\ scores_now = None
    /\ avail = << >>
    /\ choice = None
    /\ final_total = None
    /\ ans = << >>
    /\ source = SpecFaces
    /\ n_rolls = 0
    /\ n_keeps = 0
    /\ roll2 = None
    /\ typed = << >>
    /\ parsed = None
    /\ shown = None

\* main calls play_round, which makes roll #1 and enters the for loop
\* with roll_no = 2, at select_keep's prompt
StartRound(limit) ==
    /\ pc = "main"
    /\ rnd <= Rounds
    /\ rnd <= limit
    /\ \E first \in roll_dice(5, source) : dice' = sorted(first)
    /\ pc' = "keep"
    /\ roll_no' = 2
    /\ n_rolls' = 1
    /\ n_keeps' = 0
    /\ choice' = None
    /\ UNCHANGED <<rnd, card, kept, scores_now, avail, final_total, ans,
                   source, roll2, typed, parsed, shown>>

\* select_keep reads a line (k is what one pass of its loop makes of the
\* line); once it returns, the reroll makes the next hand and, roll_no
\* being 2, the stop prompt follows
SelectKeep ==
    /\ pc = "keep"
    /\ \E k \in {keep_check(dice, p) : p \in KeepRequests} :
             IF k = None THEN UNCHANGED vars
             ELSE /\ kept' = Get(k)
                  /\ dice' \in reroll(dice, Get(k), source)
                  /\ roll2' = IF roll_no = 2 THEN Some(dice') ELSE roll2
                  /\ n_rolls' = n_rolls + 1
                  /\ n_keeps' = n_keeps + 1
                  /\ IF roll_no < 3
                     THEN /\ pc' = "stop"
                          /\ UNCHANGED <<scores_now, avail>>
                     ELSE /\ pc' = "choose"
                          /\ scores_now' = Some(evaluate(dice'))
                          /\ avail' = avail_of(used_of(card))
                  /\ UNCHANGED <<rnd, card, roll_no, choice, final_total,
                                 ans, source, typed, parsed, shown>>

\* a stop branch without the break behind roll #3: after 'n' the for loop
\* goes on with roll_no = 3, to a second keep prompt and a fourth roll
StopDecision_no_break ==
    /\ pc = "stop"
    /\ \E a \in StopAnswers :
             IF a = None THEN UNCHANGED vars
             ELSE /\ ans' = Get(a)
                  /\ dice' \in after_stop(Get(a), dice, kept, source)
                  /\ n_rolls' = IF Get(a) = <<"y">> THEN n_rolls
                                ELSE n_rolls + 1
                  /\ IF Get(a) = <<"y">>
                     THEN /\ scores_now' = Some(evaluate(dice'))
                          /\ avail' = avail_of(used_of(card))
                          /\ pc' = "choose"
                          /\ roll_no' = roll_no
                     ELSE /\ pc' = "keep"
                          /\ roll_no' = 3
                          /\ UNCHANGED <<scores_now, avail>>
                  /\ UNCHANGED <<rnd, card, kept, choice, final_total, source,
                                 n_keeps, roll2, typed, parsed, shown>>

\* the stop prompt reads a line; 'y' breaks with the hand as it is, 'n'
\* rerolls with the same kept list and breaks; then evaluate, used, and
\* choose's menu
StopDecision ==
    /\ pc = "stop"
    /\ \E a \in StopAnswers :
             IF a = None THEN UNCHANGED vars
             ELSE /\ ans' = Get(a)
                  /\ dice' \in after_stop(Get(a), dice, kept, source)
                  /\ n_rolls' = IF Get(a) = <<"y">> THEN n_rolls
                                ELSE n_rolls + 1
                  /\ scores_now' = Some(evaluate(dice'))
                  /\ avail' = avail_of(used_of(card))
                  /\ pc' = "choose"
                  /\ UNCHANGED <<rnd, card, kept, roll_no, choice,
                                 final_total, source, n_keeps, roll2, typed,
                                 parsed, shown>>

\* choose reads a line; once it returns, play_round commits the score and
\* returns to main, whose loop moves to the next round
Choose ==
    /\ pc = "choose"
    /\ \E r \in {choose_check(avail, rd) : rd \in ChooseReads} :
             CASE r[1] = "again" -> UNCHANGED vars
               [] r[1] = "ValueError" ->
                    /\ pc' = "crashed"
                    /\ UNCHANGED <<rnd, card, dice, kept, roll_no, scores_now,
                                   avail, choice, final_total, ans, source,
                                   n_rolls, n_keeps, roll2, typed, parsed,
                                   shown>>
               [] r[1] = "return" ->
                    /\ choice' = Some(r[2])
                    /\ card' = commit(card, r[2], score_of(Get(scores_now), r[2]))
                    /\ rnd' = rnd + 1
                    /\ pc' = "main"
                    /\ dice' = << >>
                    /\ kept' = << >>
                    /\ roll_no' = 0
                    /\ scores_now' = None
                    /\ avail' = << >>
                    /\ ans' = << >>
                    /\ n_rolls' = 0
                    /\ n_keeps' = 0
                    /\ roll2' = None
                    /\ UNCHANGED <<final_total, source, typed, parsed, shown>>

\* main after the loop: the final tally
Finish ==
    /\ pc = "main"
    /\ rnd > Rounds
    /\ LET up  == _upper_subtotal(card)
           b   == _bonus(up)
           low == _lower_subtotal(card)
       IN  final_total' = Some(up + b + low)
    /\ pc' = "over"
    /\ UNCHANGED <<rnd, card, dice, kept, roll_no, scores_now, avail, choice,
                   ans, source, n_rolls, n_keeps, roll2, typed, parsed, shown>>

\* the first MaxRounds rounds of a game, any dice of SpecFaces
Next ==
    \/ StartRound(MaxRounds)
    \/ SelectKeep
    \/ StopDecision
    \/ Choose

Spec == Init /\ [][Next]_vars

\* a whole game, the dice source yielding GameFaces
GameInit ==
    /\ pc = "main"
    /\ rnd = 1
    /\ card = create_empty_scorecard
    /\ dice = << >>
    /\ kept = << >>
    /\ roll_no = 0
    /\ scores_now = None
    /\ avail = << >>
    /\ choice = None
    /\ final_total = None
    /\ ans = << >>
    /\ source = GameFaces
    /\ n_rolls = 0
    /\ n_keeps = 0
    /\ roll2 = None
    /\ typed = << >>
    /\ parsed = None
    /\ shown = None

GameNext ==
    \/ StartRound(Rounds)
    \/ SelectKeep
    \/ StopDecision
    \/ Choose
    \/ Finish

SpecGame == GameInit /\ [][GameNext]_vars

\* the steps in which a prompt takes the line it read: select_keep
\* returns, the stop loop breaks, choose returns
KeepAccepted == SelectKeep /\ pc' = "stop"
StopAccepted == StopDecision /\ pc' = "choose"
ChooseAccepted == Choose /\ pc' = "main"

\* a whole game in which the program runs on (main's loop and final
\* tally) and the player at every prompt gives a line it takes in the end
SpecGameFair ==
    /\ GameInit
    /\ [][GameNext]_vars
    /\ WF_vars(StartRound(Rounds))
    /\ WF_vars(KeepAccepted)
    /\ WF_vars(StopAccepted)
    /\ WF_vars(ChooseAccepted)
    /\ WF_vars(Finish)

---------------------------------------------------------------------------
(* SpecHands: the hands of a game's first rounds, and the hands reroll
   returns when it is called on its own with any kept list, the hand's
   size or longer *)

\* the kept lists handed to reroll on its own
KeptLists == UNION {[1..n -> SpecFaces] : n \in 0..MaxKept}

RerollInit ==
    /\ pc = "reroll"
    /\ dice \in {sorted(h) : h \in roll_dice(5, SpecFaces)}
    /\ kept \in KeptLists
    /\ rnd = 1
    /\ card = create_empty_scorecard
    /\ roll_no = 0
    /\ scores_now = None
    /\ avail = << >>
    /\ choice = None
    /\ final_total = None
    /\ ans = << >>
    /\ source = Faces
    /\ n_rolls = 0
    /\ n_keeps = 0
    /\ roll2 = None
    /\ typed = << >>
    /\ parsed = None
    /\ shown = None

\* reroll(dice, kept), called on its own
Reroll ==
    /\ pc = "reroll"
    /\ dice' \in reroll(dice, kept, source)
    /\ pc' = "rerolled"
    /\ UNCHANGED <<rnd, card, kept, roll_no, scores_now, avail, choice,
                   final_total, ans, source, n_rolls, n_keeps, roll2, typed,
                   parsed, shown>>

HandsInit == Init \/ RerollInit

HandsNext ==
    \/ StartRound(MaxRounds)
    \/ SelectKeep
    \/ StopDecision
    \/ Choose
    \/ Reroll

SpecHands == HandsInit /\ [][HandsNext]_vars

---------------------------------------------------------------------------
(* SpecEval: evaluate applied to every hand of five dice *)

EvalInit ==
    /\ pc = "hand"
    /\ dice \in [1..5 -> Faces]
    /\ scores_now = None
    /\ rnd = 1
    /\ card = create_empty_scorecard
    /\ kept = << >>
    /\ roll_no = 0
    /\ avail = << >>
    /\ choice = None
    /\ final_total = None
    /\ ans = << >>
    /\ source = Faces
    /\ n_rolls = 0
    /\ n_keeps = 0
    /\ roll2 = None
    /\ typed = << >>
    /\ parsed = None
    /\ shown = None

Evaluate ==
    /\ pc = "hand"
    /\ scores_now' = Some(evaluate(dice))
    /\ pc' = "scored"
    /\ UNCHANGED <<rnd, card, dice, kept, roll_no, avail, choice, final_total,
                   ans, source, n_rolls, n_keeps, roll2, typed, parsed, shown>>

EvalNext == Evaluate

SpecEval == EvalInit /\ [][EvalNext]_vars

---------------------------------------------------------------------------
(* SpecParse: _parse_keep_string applied to every line of ParseInputs.  The
   line << >> stands for both "" and an absent line (None): the code's test
   `not s` takes the two alike. *)

ParseInit ==
    /\ pc = "line"
    /\ typed \in ParseInputs
    /\ parsed = None
    /\ rnd = 1
    /\ card = create_empty_scorecard
    /\ dice = << >>
    /\ kept = << >>
    /\ roll_no = 0
    /\ scores_now = None
    /\ avail = << >>
    /\ choice = None
    /\ final_total = None
    /\ ans = << >>
    /\ source = Faces
    /\ n_rolls = 0
    /\ n_keeps = 0
    /\ roll2 = None
    /\ shown = None

\* select_keep line 123: kept = _parse_keep_string(raw)
ParseKeep ==
    /\ pc = "line"
    /\ parsed' = Some(_parse_keep_string(typed))
    /\ pc' = "parsed"
    /\ UNCHANGED <<rnd, card, dice, kept, roll_no, scores_now, avail, choice,
                   final_total, ans, source, n_rolls, n_keeps, roll2, typed,
                   shown>>

ParseNext == ParseKeep

SpecParse == ParseInit /\ [][ParseNext]_vars

---------------------------------------------------------------------------
(* SpecCard: display_scorecard applied to scorecards in every state of
   completion *)

\* the scores explored for category k: scores a hand can give it (three
\* of the face in the upper section, two or three ones, three or four
\* sixes, a zero here and there)
CardScores(k) ==
    CASE k = "1" -> {2, 3}
      [] k = "2" -> {0, 6}
      [] k = "3" -> {9}
      [] k = "4" -> {12}
      [] k = "5" -> {15}
      [] k = "6" -> {18, 24}
      [] k = "three_of_a_kind" -> {17}
      [] k = "four_of_a_kind" -> {0}
      [] k = "full_house" -> {25}
      [] k = "four_straight" -> {30}
      [] k = "five_straight" -> {40}
      [] k = "yahtzee" -> {0, 50}
      [] k = "chance" -> {20}

\* the scorecards over the first i categories: each unset or committed
RECURSIVE CardsOver(_)
CardsOver(i) ==
    IF i = 0 THEN {EmptyDict}
    ELSE {DictSet(c, ALL_CATEGORIES[i], e) :
             c \in CardsOver(i - 1),
             e \in {None} \cup {Some(v) : v \in CardScores(ALL_CATEGORIES[i])}}

CardInit ==
    /\ pc = "card"
    /\ card \in CardsOver(Len(ALL_CATEGORIES))
    /\ shown = None
    /\ rnd = 1
    /\ dice = << >>
    /\ kept = << >>
    /\ roll_no = 0
    /\ scores_now = None
    /\ avail = << >>
    /\ choice = None
    /\ final_total = None
    /\ ans = << >>
    /\ source = Faces
    /\ n_rolls = 0
    /\ n_keeps = 0
    /\ roll2 = None
    /\ typed = << >>
    /\ parsed = None

\* display_scorecard(card): the four sums it computes and prints
DisplayScorecard ==
    /\ pc = "card"
    /\ LET up  == _upper_subtotal(card)
           b   == _bonus(up)
           low == _lower_subtotal(card)
           total == up + b + low
       IN  shown' = Some([up |-> up, b |-> b, low |-> low, total |-> total])
    /\ pc' = "shown"
    /\ UNCHANGED <<rnd, card, dice, kept, roll_no, scores_now, avail, choice,
                   final_total, ans, source, n_rolls, n_keeps, roll2, typed,
                   parsed>>

CardNext == DisplayScorecard

SpecCard == CardInit /\ [][CardNext]_vars

---------------------------------------------------------------------------
(* SpecFull: play_round called on a scorecard whose 13 categories are all
   committed, as a 14th round would *)

FullCards ==
    {c \in CardsOver(Len(ALL_CATEGORIES)) :
        \A k \in Range(ALL_CATEGORIES) : c[k] # None}

FullInit ==
    /\ pc = "main"
    /\ rnd = 1
    /\ card \in FullCards
    /\ dice = << >>
    /\ kept = << >>
    /\ roll_no = 0
    /\ scores_now = None
    /\ avail = << >>
    /\ choice = None
    /\ final_total = None
    /\ ans = << >>
    /\ source = SpecFaces
    /\ n_rolls = 0
    /\ n_keeps = 0
    /\ roll2 = None
    /\ typed = << >>
    /\ parsed = None
    /\ shown = None

FullNext ==
    \/ StartRound(MaxRounds)
    \/ SelectKeep
    \/ StopDecision
    \/ Choose

SpecFull == FullInit /\ [][FullNext]_vars

---------------------------------------------------------------------------
(* Claims *)

Categories == Range(ALL_CATEGORIES)
Upper == Range(UPPER_CATEGORIES)
Lower == Range(LOWER_CATEGORIES)

\* the number of entries of s equal to v
Occ(v, s) == Cardinality({i \in DOMAIN s : s[i] = v})

\* a is a sub-multiset of b
SubMultiset(a, b) == \A v \in Range(a) : Occ(v, a) <= Occ(v, b)

\* the committed scores of the categories S of card c, added up
RECURSIVE Tally(_, _)
Tally(c, S) ==
    IF S = {} THEN 0
    ELSE LET k == CHOOSE x \in S : TRUE
         IN  (IF c[k] = None THEN 0 ELSE c[k][1]) + Tally(c, S \ {k})

\* C1: in every step of a game, a category that is committed keeps its
\* value: a category goes from unset to committed at most once and is
\* never changed after that.
C1_CommittedOnce ==
    [][\A k \in Categories : card[k] # None => card'[k] = card[k]]_vars

\* C1's case: two rounds are over, so the first round's entry has been
\* through a second round's commit.
C1_Witness ==
    /\ pc = "main"
    /\ rnd = 3
    /\ Cardinality({k \in Categories : card[k] # None}) = 2

\* C2: once the 13 rounds are over, no category is unset, and the final
\* total main reports is upper subtotal + bonus + lower subtotal of the
\* card.
C2_FullCardAndTotal ==
    /\ (pc = "main" /\ rnd = 14) \/ pc = "over" =>
         \A k \in Categories : card[k] # None
    /\ pc = "over" =>
         LET up == Tally(card, Upper)
         IN  final_total =
               <<up + (IF up >= 63 THEN 35 ELSE 0) + Tally(card, Lower)>>
    /\ final_total # None => pc = "over"
    /\ pc = "over" => rnd = 14

\* C2's case: a game that ended, with a final total that has a lower and
\* an upper part.
C2_Witness ==
    /\ pc = "over"
    /\ Tally(card, Upper) > 0
    /\ Tally(card, Lower) > 0
    /\ final_total = <<Tally(card, Upper) + Tally(card, Lower)>>

\* C3: the card changes only in the commit step (from choose's prompt back
\* to main), and that step sets exactly one unset category and leaves
\* every other entry as it was; the first roll, the keep prompt, the
\* rerolls and the stop decision leave the card alone.
C3_OnlyCommitWrites ==
    [][/\ card' # card => pc = "choose" /\ pc' = "main"
       /\ pc = "choose" /\ pc' = "main" =>
            \E k \in Categories :
               /\ card[k] = None
               /\ card'[k] # None
               /\ \A j \in Categories \ {k} : card'[j] = card[j]
       /\ pc \in {"main", "keep", "stop"} => card' = card]_vars

\* C3's case: the second round's dice are on the table after a reroll,
\* and the card still holds just the one entry the first round committed.
C3_Witness ==
    /\ pc = "choose"
    /\ rnd = 2
    /\ n_rolls = 3
    /\ Cardinality({k \in Categories : card[k] # None}) = 1

\* C4: committing to a category that is already set fails and leaves the
\* entry as it is: whatever the value, the commit of a set category of the
\* card does not overwrite it.
C4_CommitRefusesSetCategory ==
    \A k \in Categories : \A v \in 0..50 :
        card[k] # None => commit(card, k, v) = card

\* C5 (state): once the stop prompt was answered 'n', the round has asked
\* for one keep request only, has made three rolls, and its hand (roll #3)
\* holds the kept list of roll #2 as a sub-multiset, as roll #2 did.
C5_AfterDecline ==
    /\ pc = "choose" /\ ans = <<"n">> =>
         /\ n_keeps = 1
         /\ n_rolls = 3
         /\ Len(dice) = 5
         /\ SubMultiset(kept, dice)
         /\ SubMultiset(kept, roll2[1])
    /\ pc \in {"stop", "choose"} => n_keeps = 1
    /\ pc = "keep" => n_keeps = 0 /\ roll_no = 2

\* C5 (step): the stop decision keeps the kept list and goes to the
\* evaluation and the menu; from the menu the round only commits (or the
\* prompt repeats, or the program dies): no stop prompt, keep prompt or
\* roll follows.
C5_DeclineStep ==
    /\ pc = "stop" /\ pc' # "stop" =>
         /\ pc' = "choose"
         /\ kept' = kept
         /\ n_keeps' = n_keeps
         /\ scores_now' = <<evaluate(dice')>>
    /\ pc = "choose" =>
         /\ pc' \in {"choose", "main", "crashed"}
         /\ pc' # "main" => dice' = dice /\ n_rolls' = n_rolls

C6_AfterStop ==
    pc = "choose" /\ ans = <<"y">> =>
        /\ n_rolls = 2
        /\ dice = roll2[1]
        /\ scores_now = <<evaluate(roll2[1])>>

\* C6 (step): the 'y' leaves the dice as they are, and so does the menu.
C6_StopStep ==
    /\ pc = "stop" /\ ans' = <<"y">> => dice' = dice /\ n_rolls' = n_rolls
    /\ pc = "choose" /\ pc' # "main" => dice' = dice /\ n_rolls' = n_rolls

\* C6: after a 'y' at the stop prompt no further dice are rolled in the
\* round, and the hand evaluated and offered for commit is roll #2.
C6_StopFreezesHand == [](C6_AfterStop) /\ [][C6_StopStep]_vars

\* C6's case: the player stopped on a roll #2 that holds both faces.
C6_Witness ==
    /\ pc = "choose"
    /\ ans = <<"y">>
    /\ dice = <<3, 3, 6, 6, 6>>

\* C7 (state): at the keep prompt, a line is accepted exactly when it
\* parses and no face is asked for more often than the hand holds it.
C7_AcceptsFeasible ==
    pc = "keep" =>
        \A raw \in KeepInputs :
            LET p == _parse_keep_string(raw)
            IN  /\ select_keep(dice, raw) # None <=>
                     /\ p # None
                     /\ \A v \in Faces : Occ(v, p[1]) <= Occ(v, dice)
                /\ select_keep(dice, raw) # None => select_keep(dice, raw) = p

\* C7 (step): the kept list a reroll uses is a sub-multiset of the hand it
\* was selected from, and of the hand the reroll returns.
C7_KeepStep ==
    /\ pc = "keep" /\ pc' # "keep" =>
         /\ \A v \in Faces : Occ(v, kept') <= Occ(v, dice)
         /\ \A v \in Faces : Occ(v, kept') <= Occ(v, dice')
    /\ pc = "stop" =>
         \A v \in Faces : Occ(v, kept) <= Occ(v, dice)

\* C7: the keep prompt accepts exactly the requests that parse and are a
\* sub-multiset of the hand; the pool [3,3,6,6,6] accepts [3,3,6] and
\* rejects [3,3,3].
C7_KeepIsSubMultiset ==
    /\ [](C7_AcceptsFeasible) /\ [][C7_KeepStep]_vars
    /\ [](/\ select_keep(<<3, 3, 6, 6, 6>>, <<"3", "3", "6">>) = <<<<3, 3, 6>>>>
          /\ select_keep(<<3, 3, 6, 6, 6>>, <<"3", "3", "3">>) = None)

\* C7's case: the hand held one 3 only, so a request for two was turned
\* down, and the request for a 3 and a 6 was accepted.
C7_Witness ==
    /\ pc = "stop"
    /\ kept = <<3, 6>>
    /\ Occ(3, dice) = 1

\* the number a line of decimal digits writes, as <<n>>; None for any
\* other line
NumberTyped(raw) ==
    LET r == strip(raw)
    IN  IF r # << >> /\ \A i \in DOMAIN r : r[i] \in Range(DigitChars)
        THEN <<decimal(r)>> ELSE None

\* the unset categories of card c in canonical order
RECURSIVE Unset(_, _)
Unset(c, i) ==
    IF i = 0 THEN << >>
    ELSE Unset(c, i - 1)
         \o (IF c[ALL_CATEGORIES[i]] = None THEN <<ALL_CATEGORIES[i]>>
             ELSE << >>)

\* C8 (state): the menu is the unset categories in canonical order; a
\* line is accepted exactly when it is an integer i from 1 to the length
\* of the menu, it then resolves to the i-th entry, and any other line
\* makes the prompt repeat.
C8_MenuAndSelection ==
    pc = "choose" =>
        /\ avail = Unset(card, Len(ALL_CATEGORIES))
        /\ \A raw \in ChooseInputs :
              LET n == NumberTyped(raw)
                  r == choose(avail, raw)
              IN  IF n # None /\ 1 <= n[1] /\ n[1] <= Len(avail)
                  THEN r = <<"return", avail[n[1]]>>
                  ELSE r = <<"again">>

\* C8 (step): the category a round commits was unset when the round
\* began, and the menu's step either commits or repeats the prompt.
C8_ChooseStep ==
    pc = "choose" =>
        /\ pc' \in {"choose", "main"}
        /\ pc' = "main" => card[choice'[1]] = None /\ card'[choice'[1]] # None

\* C8: the committed category is one of the unset ones, chosen by its
\* number in the menu; every other input repeats the prompt.
C8_SelectionAlwaysValid == [](C8_MenuAndSelection) /\ [][C8_ChooseStep]_vars

\* C9: the value a round commits is the score evaluate gives the chosen
\* category for the round's final hand (roll #2 after a 'y', roll #3
\* after an 'n'), and the entry is the chosen category's.
C9_CommitsFinalHandScore ==
    [][pc = "choose" /\ pc' = "main" =>
         LET k == choice'[1]
         IN  /\ card'[k] = <<evaluate(dice)[k]>>
             /\ card[k] = None
             /\ ans = <<"y">> => dice = roll2[1] /\ n_rolls = 2
             /\ ans = <<"n">> => n_rolls = 3]_vars

\* C9's case: after a third roll that changed the hand, the round
\* committed a score in a category where it is not the score of chance.
C9_Witness ==
    /\ pc = "main"
    /\ rnd = 2
    /\ choice = <<"full_house">>
    /\ card["full_house"] = <<25>>

\* C10: evaluate returns a dict of exactly the 13 category keys, each with
\* a non-negative integer.
C10_ThirteenScores ==
    pc = "scored" =>
        /\ DOMAIN scores_now[1] = Categories
        /\ Cardinality(DOMAIN scores_now[1]) = 13
        /\ \A k \in DOMAIN scores_now[1] : scores_now[1][k] \in Nat

\* C10's case: a hand that scores in every section has been evaluated.
C10_Witness ==
    /\ pc = "scored"
    /\ dice = <<1, 2, 3, 4, 5>>
    /\ scores_now[1]["five_straight"] = 40
    /\ scores_now[1]["1"] = 1

\* the pips of the hand d, added up face by face
Pips(d) == 1 * Occ(1, d) + 2 * Occ(2, d) + 3 * Occ(3, d)
           + 4 * Occ(4, d) + 5 * Occ(5, d) + 6 * Occ(6, d)

\* C11: for every hand of five dice, the score of upper category f is f
\* times the number of dice showing f; three_of_a_kind is the sum of the
\* five dice when some face shows on three dice or more, and 0 otherwise;
\* four_of_a_kind is the same with four dice or more; chance is the sum
\* of the five dice whatever the hand.
C11_UpperKindsChance ==
    pc = "scored" =>
        LET s == scores_now[1]
        IN  /\ \A f \in Faces : s[UPPER_CATEGORIES[f]] = f * Occ(f, dice)
            /\ s["three_of_a_kind"] =
                  IF \E f \in Faces : Occ(f, dice) >= 3 THEN Pips(dice) ELSE 0
            /\ s["four_of_a_kind"] =
                  IF \E f \in Faces : Occ(f, dice) >= 4 THEN Pips(dice) ELSE 0
            /\ s["chance"] = Pips(dice)

\* C11's case: the hand [2,2,2,5,6] is scored: '2' is 6, three of a kind
\* is the sum 17, four of a kind is 0.
C11_Witness ==
    /\ pc = "scored"
    /\ dice = <<2, 2, 2, 5, 6>>
    /\ scores_now[1]["2"] = 6
    /\ scores_now[1]["three_of_a_kind"] = 17
    /\ scores_now[1]["four_of_a_kind"] = 0
    /\ scores_now[1]["chance"] = 17

\* C12: for every hand of five dice, full_house is 25 exactly when one
\* face shows on three dice and another on the two others, and 0
\* otherwise; four and one, and five of a kind, score 0.
C12_FullHouse ==
    pc = "scored" =>
        /\ scores_now[1]["full_house"] =
              IF \E a, b \in Faces :
                    a # b /\ Occ(a, dice) = 3 /\ Occ(b, dice) = 2
              THEN 25 ELSE 0
        /\ (\E a \in Faces : Occ(a, dice) >= 4) =>
              scores_now[1]["full_house"] = 0
        /\ dice = <<2, 2, 2, 5, 5>> => scores_now[1]["full_house"] = 25
        /\ dice = <<2, 2, 2, 2, 5>> => scores_now[1]["full_house"] = 0
        /\ dice = <<1, 1, 1, 1, 1>> => scores_now[1]["full_house"] = 0

\* C12's case: a three and a pair that are not in sorted order score 25.
C12_Witness ==
    /\ pc = "scored"
    /\ dice = <<5, 2, 2, 5, 2>>
    /\ scores_now[1]["full_house"] = 25

\* the length of the longest run a, a+1, ... of faces that all show in d
LongestRun(d) ==
    LET runs == {n \in 1..6 : \E a \in Faces :
                    \A j \in a..(a + n - 1) : \E i \in DOMAIN d : d[i] = j}
    IN  CHOOSE n \in runs : \A m \in runs : m <= n

\* C13: for every hand of five dice, four_straight is 30 exactly when the
\* longest run of consecutive distinct faces is 4 or longer and 0
\* otherwise, five_straight is 40 exactly when it is 5 or longer and 0
\* otherwise; so five_straight = 40 implies four_straight = 30, and
\* [1,1,3,4,5] scores 0 in both.
C13_Straights ==
    pc = "scored" =>
        LET s == scores_now[1]
        IN  /\ s["four_straight"] = IF LongestRun(dice) >= 4 THEN 30 ELSE 0
            /\ s["five_straight"] = IF LongestRun(dice) >= 5 THEN 40 ELSE 0
            /\ s["five_straight"] = 40 => s["four_straight"] = 30
            /\ dice = <<1, 1, 3, 4, 5>> =>
                  s["four_straight"] = 0 /\ s["five_straight"] = 0

\* C13's case: a hand with a gap after 2 and the run 4,5,6 behind it
\* is scored 0 in both straights.
C13_Witness ==
    /\ pc = "scored"
    /\ dice = <<1, 2, 4, 5, 6>>
    /\ LongestRun(dice) = 3
    /\ scores_now[1]["four_straight"] = 0
    /\ scores_now[1]["five_straight"] = 0

\* C14: for every hand of five dice, yahtzee is 50 if and only if one
\* face shows on all five dice, and 0 otherwise.
C14_Yahtzee ==
    pc = "scored" =>
        /\ scores_now[1]["yahtzee"] = 50 <=> \E f \in Faces : Occ(f, dice) = 5
        /\ scores_now[1]["yahtzee"] \in {0, 50}

\* C14's case: four of a kind is scored, and its yahtzee is 0.
C14_Witness ==
    /\ pc = "scored"
    /\ dice = <<4, 4, 4, 4, 1>>
    /\ scores_now[1]["yahtzee"] = 0
    /\ scores_now[1]["four_of_a_kind"] = 17

\* C15 as the claim has it: for the hand [6,6,6,6,6], yahtzee is 50,
\* '6' is 30, chance is 30, and every other category is 0.
C15_SixesOthersZero ==
    pc = "scored" /\ dice = <<6, 6, 6, 6, 6>> =>
        \A k \in Categories :
            scores_now[1][k] = CASE k = "yahtzee" -> 50
                                 [] k \in {"6", "chance"} -> 30
                                 [] OTHER -> 0

\* C15, amended: for the hand [6,6,6,6,6], yahtzee is 50; '6', chance,
\* three_of_a_kind and four_of_a_kind are 30 (the sum of the dice, five
\* sixes being three and four of a kind as well); '1' to '5', full_house,
\* four_straight and five_straight are 0.
C15_SixesScores ==
    pc = "scored" /\ dice = <<6, 6, 6, 6, 6>> =>
        \A k \in Categories :
            scores_now[1][k] =
                CASE k = "yahtzee" -> 50
                  [] k \in {"6", "chance", "three_of_a_kind",
                            "four_of_a_kind"} -> 30
                  [] OTHER -> 0

\* C15's case: the five sixes are scored.
C15_Witness ==
    /\ pc = "scored"
    /\ dice = <<6, 6, 6, 6, 6>>
    /\ scores_now[1]["yahtzee"] = 50
    /\ scores_now[1]["three_of_a_kind"] = 30

\* the characters of the line s that are no whitespace, in order
RECURSIVE Squeeze(_)
Squeeze(s) ==
    IF s = << >> THEN << >>
    ELSE IF Head(s) \in {" ", "\t"} THEN Squeeze(Tail(s))
         ELSE <<Head(s)>> \o Squeeze(Tail(s))

\* the face a character '1'..'6' writes
FaceOf(ch) == CASE ch = "1" -> 1 [] ch = "2" -> 2 [] ch = "3" -> 3
                [] ch = "4" -> 4 [] ch = "5" -> 5 [] ch = "6" -> 6

FaceChars == {"1", "2", "3", "4", "5", "6"}

\* C16: _parse_keep_string returns the empty list for an empty (or
\* absent) line; it takes the whitespace out first; if any character left
\* is outside '1'..'6' the whole line is INVALID (None), with no partial
\* result; otherwise it returns one face per character, in the line's
\* order.  "336" and " 3 3 6 " give [3,3,6]; "07" and "3x6" are INVALID.
C16_ParseKeep ==
    pc = "parsed" =>
        LET r == parsed[1]
            t == Squeeze(typed)
        IN  /\ typed = << >> => r = <<<< >>>>
            /\ (\E i \in DOMAIN t : t[i] \notin FaceChars) => r = None
            /\ (\A i \in DOMAIN t : t[i] \in FaceChars) =>
                  r = <<[i \in 1..Len(t) |-> FaceOf(t[i])]>>
            /\ typed = <<"3", "3", "6">> => r = <<<<3, 3, 6>>>>
            /\ typed = <<" ", "3", " ", "3", " ", "6", " ">> =>
                  r = <<<<3, 3, 6>>>>
            /\ typed = <<"0", "7">> => r = None
            /\ typed = <<"3", "x", "6">> => r = None

\* C16's case: the line " 3 3 6 " has been parsed to [3,3,6].
C16_Witness ==
    /\ pc = "parsed"
    /\ typed = <<" ", "3", " ", "3", " ", "6", " ">>
    /\ parsed = <<<<<<3, 3, 6>>>>>>

\* C17: for a scorecard in any state of completion, the upper subtotal
\* is the sum of the committed upper values and the lower subtotal the
\* sum of the committed lower values (unset entries left out); the bonus
\* is 35 exactly when the upper subtotal is 63 or more and 0 otherwise
\* (35 at 63, 0 at 62); the total is upper subtotal + bonus + lower
\* subtotal.
C17_Subtotals ==
    /\ pc = "shown" =>
         LET t == shown[1]
         IN  /\ t.up = Tally(card, Upper)
             /\ t.low = Tally(card, Lower)
             /\ t.b = (IF Tally(card, Upper) >= 63 THEN 35 ELSE 0)
             /\ t.total = Tally(card, Upper) + Tally(card, Lower)
                            + (IF Tally(card, Upper) >= 63 THEN 35 ELSE 0)
             /\ t.up = 63 => t.b = 35
             /\ t.up = 62 => t.b = 0
    /\ _bonus(63) = 35
    /\ _bonus(62) = 0

\* C17's case: a card with an upper subtotal of exactly 63, some lower
\* categories committed and others unset, has been summed.
C17_Witness ==
    /\ pc = "shown"
    /\ shown[1].up = 63
    /\ shown[1].b = 35
    /\ shown[1].low = 42
    /\ shown[1].total = 140
    /\ card["chance"] = None
    /\ card["yahtzee"] = <<0>>

\* C18 (state): the keep prompt stands between roll #1 and roll #2, the
\* stop prompt stands after roll #2 and before any roll #3, the menu
\* stands after roll #2 or roll #3, and no round has more than 3 rolls.
C18_RollsAtPrompts ==
    /\ pc = "main" => n_rolls = 0
    /\ pc = "keep" => n_rolls = 1 /\ n_keeps = 0 /\ Len(dice) = 5
    /\ pc = "stop" => n_rolls = 2 /\ n_keeps = 1
    /\ pc \in {"choose", "crashed"} =>
         /\ n_rolls \in {2, 3}
         /\ n_rolls = 2 <=> ans = <<"y">>
         /\ n_rolls = 3 <=> ans = <<"n">>
    /\ n_rolls <= 3

\* C18 (step): a round goes from main to roll #1 and the keep prompt,
\* from the keep prompt to roll #2 and the stop prompt, from the stop
\* prompt (with roll #3 or without) to the evaluated hand and the menu,
\* and from the menu to the commit; nothing goes back, nothing is left
\* out, and dice are rolled in the first three of these steps only.
C18_OrderStep ==
    /\ pc = "main" /\ pc' # "main" =>
         pc' = "keep" /\ n_rolls' = 1 /\ card' = card
    /\ pc = "keep" /\ pc' # "keep" =>
         pc' = "stop" /\ n_rolls' = 2 /\ card' = card
    /\ pc = "stop" /\ pc' # "stop" =>
         /\ pc' = "choose"
         /\ n_rolls' \in {2, 3}
         /\ card' = card
         /\ scores_now' = <<evaluate(dice')>>
    /\ pc = "choose" /\ pc' = "choose" => dice' = dice /\ n_rolls' = n_rolls
    /\ pc = "choose" /\ pc' # "choose" =>
         /\ pc' \in {"main", "crashed"}
         /\ pc' = "main" => card' # card /\ n_rolls \in {2, 3}
    /\ card' # card => pc = "choose" /\ n_rolls \in {2, 3}
    /\ n_rolls' # n_rolls /\ n_rolls' # 0 => n_rolls' = n_rolls + 1

\* C18: every round runs roll #1, keep prompt, roll #2, stop prompt,
\* roll #3 or none, evaluation, menu, commit, in this order: no keep
\* prompt before roll #1, one stop prompt, after roll #2 only, 2 or 3
\* rolls, and the commit after the last of them.
C18_RoundOrder == [](C18_RollsAtPrompts) /\ [][C18_OrderStep]_vars

\* C18's case: in the second round the player stopped after roll #2 and
\* stands at the menu.
C18_Witness ==
    /\ pc = "choose"
    /\ rnd = 2
    /\ n_rolls = 2
    /\ n_keeps = 1
    /\ ans = <<"y">>
    /\ Cardinality({k \in Categories : card[k] # None}) = 1

\* the line s from its first to its last character that is no whitespace
Trimmed(s) ==
    LET I == {i \in DOMAIN s : s[i] \notin {" ", "\t"}}
    IN  IF I = {} THEN << >>
        ELSE SubSeq(s, CHOOSE i \in I : \A j \in I : i <= j,
                       CHOOSE i \in I : \A j \in I : j <= i)

\* the line s with its capital letters made small
Folded(s) == [i \in DOMAIN s |-> CASE s[i] = "Y" -> "y" [] s[i] = "N" -> "n"
                                    [] OTHER -> s[i]]

\* a keep line that does not parse, or asks for dice the hand d lacks
BadKeepLine(d, line) ==
    LET t == Squeeze(line)
    IN  \/ \E i \in DOMAIN t : t[i] \notin FaceChars
        \/ \E f \in Faces :
              Cardinality({i \in DOMAIN t : t[i] \in FaceChars /\ FaceOf(t[i]) = f})
                > Occ(f, d)

\* a stop line that is neither y, n nor empty
BadStopLine(line) == Folded(Trimmed(line)) \notin {<<"y">>, <<"n">>, << >>}

\* a menu line that is no number, or a number outside the menu av
BadMenuLine(av, line) ==
    LET t == Trimmed(line)
    IN  \/ t = << >>
        \/ \E i \in DOMAIN t : t[i] \notin Range(DigitChars)
        \/ decimal(t) < 1
        \/ decimal(t) > Len(av)

\* C19 (state): no input is fatal, and at each prompt every malformed or
\* infeasible line is turned down, which leaves the prompt standing.
C19_BadLinesRejected ==
    /\ pc # "crashed"
    /\ pc = "keep" =>
         \A line \in KeepInputs :
             BadKeepLine(dice, line) => select_keep(dice, line) = None
    /\ pc = "stop" =>
         \A line \in StopInputs :
             BadStopLine(line) => stop_answer(line) = None
    /\ pc = "choose" =>
         \A line \in ChooseInputs :
             BadMenuLine(avail, line) => choose(avail, line) = <<"again">>

\* C19 (step): a step at a prompt either takes the round on to its next
\* stage or leaves the hand, the position and the scorecard as they are.
C19_RepromptStep ==
    pc \in {"keep", "stop", "choose"} =>
        \/ pc = "keep" /\ pc' = "stop"
        \/ pc = "stop" /\ pc' = "choose"
        \/ pc = "choose" /\ pc' = "main"
        \/ /\ pc' = pc
           /\ dice' = dice
           /\ card' = card
           /\ kept' = kept
           /\ n_rolls' = n_rolls

\* C19: malformed or infeasible input at the keep prompt, the stop
\* prompt or the menu is never fatal: the hand, the round's position and
\* the scorecard stay as they are and the same prompt is issued again.
C19_InputNeverFatal == [](C19_BadLinesRejected) /\ [][C19_RepromptStep]_vars

\* C20 (state): at the stop prompt a line resolves to 'y' exactly when,
\* trimmed and in small letters, it is y, to 'n' exactly when it is n or
\* empty, and is turned down in every other case.
C20_StopAnswerRead ==
    pc = "stop" =>
        \A line \in StopInputs :
            LET t == Folded(Trimmed(line))
                a == stop_answer(line)
            IN  /\ a = <<<<"y">>>> <=> t = <<"y">>
                /\ a = <<<<"n">>>> <=> t \in {<<"n">>, << >>}
                /\ a = None <=> t \notin {<<"y">>, <<"n">>, << >>}

\* C20 (step): a step of the stop prompt either stops (answer 'y': no
\* roll, the hand stays), continues (answer 'n': one roll, roll #3), or
\* leaves the prompt standing without a roll.
C20_StopStep ==
    pc = "stop" =>
        \/ /\ pc' = "choose" /\ ans' = <<"y">>
           /\ dice' = dice /\ n_rolls' = n_rolls
        \/ /\ pc' = "choose" /\ ans' = <<"n">>
           /\ n_rolls' = n_rolls + 1
           /\ SubMultiset(kept, dice')
        \/ /\ pc' = "stop" /\ ans' = ans
           /\ dice' = dice /\ n_rolls' = n_rolls

\* C20: the stop decision is 'stop' exactly for y, 'continue' exactly for
\* n or the empty line (after trimming, in any case of letters); any
\* other answer is turned down and the prompt repeats without a roll.
C20_StopDecision == [](C20_StopAnswerRead) /\ [][C20_StopStep]_vars

\* C20's case: in the first round the player kept nothing, answered 'n'
\* (or nothing) at the stop prompt, and roll #3 was made.
C20_Witness ==
    /\ pc = "choose"
    /\ rnd = 1
    /\ ans = <<"n">>
    /\ kept = << >>
    /\ n_rolls = 3
    /\ dice # roll2[1]

\* C21: if at every prompt the player gives a valid answer in the end,
\* every round that has begun ends with its commit (the program is back
\* in main with the round counted), and the game ends after its 13
\* rounds.
C21_GameTerminates ==
    /\ \A r \in 1..Rounds :
          (pc \in {"keep", "stop", "choose"} /\ rnd = r)
             ~> (pc = "main" /\ rnd = r + 1)
    /\ <>(pc = "over" /\ rnd = Rounds + 1)

\* d is a hand: exactly 5 dice, each a face from 1 to 6
IsHand(d) == Len(d) = 5 /\ \A i \in 1..Len(d) : d[i] \in 1..6

\* C22 (state): from roll #1 on, the hand of a round is 5 dice with faces
\* 1 to 6, and so is every hand reroll takes or returns.
C22_HandOfFive ==
    pc \in {"keep", "stop", "choose", "crashed", "reroll", "rerolled"} =>
        IsHand(dice)

\* C22 (step): a reroll in a round returns a hand of 5 that holds the
\* kept dice; reroll called with a kept list of 5 dice or fewer returns
\* the kept dice and 5 - |kept| others; called with a longer kept list it
\* returns the first 5 kept dice, and no more.
C22_RerollStep ==
    /\ pc \in {"keep", "stop"} /\ n_rolls' = n_rolls + 1 =>
         /\ IsHand(dice')
         /\ SubMultiset(kept', dice')
         /\ Len(kept') <= 5
    /\ pc = "reroll" /\ pc' = "rerolled" =>
         /\ IsHand(dice')
         /\ Len(kept) <= 5 => SubMultiset(kept, dice')
         /\ Len(kept) > 5 =>
               \A v \in Faces : Occ(v, dice') = Occ(v, SubSeq(kept, 1, 5))

\* C22: at every point of every round the hand has exactly 5 dice with
\* faces 1 to 6; a reroll keeps the kept dice and adds 5 - |kept| new
\* ones; a kept list longer than the hand is cut to the hand's size, so
\* the result is still 5 dice.
C22_FiveDice == [](C22_HandOfFive) /\ [][C22_RerollStep]_vars

\* C22's case: reroll was called with six kept dice and returned the
\* first five of them.
C22_Witness ==
    /\ pc = "rerolled"
    /\ kept = <<6, 6, 3, 3, 3, 3>>
    /\ dice = <<3, 3, 3, 6, 6>>

\* C23 (state): in a round begun on a full card the menu is empty and
\* every line typed at it is turned down.
C23_EmptyMenu ==
    pc = "choose" =>
        /\ avail = << >>
        /\ \A line \in ChooseInputs : choose(avail, line) = <<"again">>

\* C23 (step): the round never leaves the menu, and no step changes the
\* scorecard.
C23_StuckStep ==
    /\ pc = "choose" => pc' = "choose"
    /\ card' = card

\* C23: a round begun when all 13 categories are committed has an empty
\* menu, accepts no selection, never reaches the commit and never ends,
\* and the scorecard is never modified.
C23_FullCardRound == [](C23_EmptyMenu) /\ [][C23_StuckStep]_vars

====
